---- MODULE Spec2Model ----
(***************************************************************************)
(* A server-side RTSP connection (ServerConn, src/server_conn.go): the     *)
(* run() goroutine with its event loop runInner(), the request path        *)
(* handleRequestOuter / handleRequestInner / handleRequestInSession, the   *)
(* channel helpers readRequest / readError / removeSession, and the        *)
(* reader task that feeds the loop.                                        *)
(*                                                                         *)
(* Sessions are identified by their secret IDs.  Application handlers,     *)
(* ServerSession.handleRequest and Server.handleRequest are callees whose  *)
(* results are drawn from small sets.  Handler hooks OnRequest/OnResponse  *)
(* observe only and change none of the state below.                        *)
(*                                                                         *)
(* Channels are unbuffered.  A send and a receive meet only while one side *)
(* is blocked in its select, and every select on the three "in" channels    *)
(* also waits on sc.ctx.Done(): cancelling the context wakes a blocked      *)
(* select with that case, and a select that starts afterwards finds that   *)
(* case ready and does not block.  So a send/receive pair on these         *)
(* channels completes only while the context is not cancelled.  req.res is *)
(* sent and received outside any select.                                   *)
(*                                                                         *)
(* The client-side reader (clientReader, src/client_reader.go) is a second *)
(* machine over its own variables, with its own specification ClientSpec:  *)
(* the reader task, setAllowInterleavedFrames and wait(), and the Client   *)
(* that owns the reader.                                                   *)
(***************************************************************************)
EXTENDS Naturals, Sequences, FiniteSets, TLC

VARIABLES
    caps,            \* handler interfaces the application implements
    pc,              \* position of the run() goroutine
    rpc,             \* position of the reader task
    ctxDone,         \* sc.ctx is cancelled
    closeCalled,     \* Close() / server shutdown was invoked from outside
    sockClosed,      \* sc.nconn.Close() was called
    session,         \* sc.session (NoSession = nil)
    rreq,            \* the request the reader read and is posting
    rerr,            \* the error the reader is posting
    cur,             \* the request the event loop received
    res,             \* the response written for cur
    herr,            \* the error handleRequestOuter returned for cur
    loopErr,         \* the error runInner returned
    chRemove,        \* session of a pending removeSession() call
    nRead,           \* requests read from the socket so far
    accepted,        \* ids of the requests the loop received, in order
    written,         \* ids of the requests a response write was attempted for
    refused,         \* ids of the requests answered ErrServerLinkedToOtherSession
    nOpen,           \* OnConnOpen events
    nClose,          \* OnConnClose events
    closeErr,        \* Error carried by OnConnClose
    removedFrom,     \* session whose removeConn(sc) was called
    registered,      \* the Server still lists the connection
    call,            \* the callee dispatch invoked for cur
    derr,            \* the error handleRequestInner returned for cur
    werr,            \* the error conn.WriteResponse returned for cur
    lastRemove,      \* the session of the detach notification the loop
                     \* received since it last received a request
    crpc,            \* clientReader: position of the reader task
    allowInterleavedFrames,  \* clientReader.allowInterleavedFrames
    mutex,           \* clientReader.mutex: "free", or who holds it
    spc,             \* position of a setAllowInterleavedFrames call
    setArg,          \* its argument v
    cframe,          \* channel of the interleaved frame being processed
    cerr,            \* the error clientReader.runInner returned
    nUnits,          \* units conn.Read() returned to the client reader
    nCallbacks,      \* channel callbacks invoked
    nReplies,        \* responses the client wrote to server requests
    opc,             \* position of the reader's owner, the Client
    ownerErr,        \* the error the Client's loop ended with
    cSockClosed,     \* the Client closed its socket
    nDiscarded       \* responses and requests wait() received and dropped

svars == <<caps, pc, rpc, ctxDone, closeCalled, sockClosed, session, rreq, rerr,
          cur, res, herr, loopErr, chRemove, nRead, accepted, written,
          refused, nOpen, nClose, closeErr, removedFrom, registered,
          call, derr, werr, lastRemove>>

\* the client reader (src/client_reader.go) and its owner
cvars == <<crpc, allowInterleavedFrames, mutex, spc, setArg, cframe, cerr,
           nUnits, nCallbacks, nReplies, opc, ownerErr, cSockClosed,
           nDiscarded>>

vars == <<svars, cvars>>

----------------------------------------------------------------------------
(* Bounds *)

\* requests the reader reads before the peer stops sending
MaxReqs == 3

\* units (responses, requests, interleaved frames) the client reader reads
\* before the peer stops sending
MaxUnits == 3

----------------------------------------------------------------------------
(* Data *)

StatusOK == 200
StatusBadRequest == 400
StatusNotImplemented == 501

Nil == "nil"
NoSession == "none"
Sessions == {"abc", "xyz"}
SessionRefs == Sessions \cup {NoSession}

secretID(ss) == ss

Methods == {"OPTIONS", "DESCRIBE", "ANNOUNCE", "SETUP", "PLAY", "RECORD",
            "PAUSE", "TEARDOWN", "GET_PARAMETER", "SET_PARAMETER", "REDIRECT"}

\* application handler capability sets the connection is checked with
HandlerSets ==
    { {},
      {"OnConnOpen", "OnConnClose"},
      {"OnConnOpen", "OnConnClose", "OnDescribe"},
      {"OnConnOpen", "OnConnClose", "OnAnnounce", "OnSetup", "OnRecord", "OnSetParameter"},
      {"OnConnClose", "OnDescribe", "OnSetup", "OnPlay", "OnPause", "OnGetParameter"},
      {"OnConnOpen", "OnConnClose", "OnDescribe", "OnAnnounce", "OnSetup", "OnPlay",
       "OnRecord", "OnPause", "OnGetParameter", "OnSetParameter"} }

\* mutant: the type assertion on the handler always succeeds
Implements_Always(h) == TRUE

Implements(h) == h \in caps

SetHeader(h, k, v) == (k :> v) @@ h

\* header[k] of a Go map: the nil list when k is absent
HeaderGet(h, k) == IF k \in DOMAIN h THEN h[k] ELSE <<>>

\* header lists a request can carry: absent, one value, several values
CSeqHeaders == {<<>>, <<"1">>, <<"7">>, <<"1", "7">>}
SessionHeaders == {<<>>, <<"abc">>, <<"xyz">>, <<"abc", "xyz">>}
URLs == {"", "rtsp://h/cam"}

MkHeader(cs, sx) ==
    (IF cs = <<>> THEN <<>> ELSE SetHeader(<<>>, "CSeq", cs))
    @@ (IF sx = <<>> THEN <<>> ELSE SetHeader(<<>>, "Session", sx))

NoReq == [id |-> 0, method |-> "", url |-> "", header |-> <<>>]

RequestsWithId(i) ==
    { [id |-> i, method |-> m, url |-> u, header |-> MkHeader(cs, sx)] :
        m \in Methods, u \in URLs, cs \in CSeqHeaders, sx \in SessionHeaders }

NoRes == [status |-> 0, header |-> <<>>, body |-> ""]

Response(st) == [status |-> st, header |-> <<>>, body |-> ""]

\* the callee a request was handed to: an application handler, the bound
\* session (on) or the Server, with the arguments id and create of the
\* sessionRequestReq and the session reference the callee returned
NoCall ==
    [target |-> "none", on |-> NoSession, id |-> "", create |-> FALSE,
     ret |-> NoSession]

HandlerCall ==
    [target |-> "handler", on |-> NoSession, id |-> "", create |-> FALSE,
     ret |-> NoSession]

\* what an application handler or a session may put in a response
CalleeStatuses == {200, 455}
CalleeHeaders == {<<>>, [CSeq |-> <<"99">>, Server |-> <<"app">>]}
CalleeErrs == {Nil, "ErrHandler"}
CalleeResponses ==
    { [status |-> st, header |-> h, body |-> ""] :
        st \in CalleeStatuses, h \in CalleeHeaders }

WriteErrs == {Nil, "ErrWrite"}
ReadErrs == {"ErrRead", "ErrServerUnexpectedResponse"}

----------------------------------------------------------------------------
(* Callees *)

\* h.OnDescribe(ctx): (res, stream, err)
OnDescribe(req) ==
    { [res |-> r, stream |-> st, err |-> e] :
        r \in CalleeResponses, st \in {"nil", "stream"}, e \in CalleeErrs }

\* h.OnGetParameter(ctx) / h.OnSetParameter(ctx): (res, err)
OnParameter(req) ==
    { [res |-> r, err |-> e, session |-> session, call |-> HandlerCall] :
        r \in CalleeResponses, e \in CalleeErrs }

\* sc.session.handleRequest(sreq): (res, session, err); the session may
\* return itself, another session or nil
SessionHandleRequest(ss, id, create) ==
    { [res |-> r, err |-> e, session |-> s2] :
        r \in CalleeResponses, e \in CalleeErrs, s2 \in SessionRefs }

\* sc.s.handleRequest(sreq): (res, session, err); the server looks the
\* session up by its secret ID and creates one only when create is set
ServerHandleRequest(id, create) ==
    { [res |-> r, err |-> e, session |-> s2] :
        r \in CalleeResponses, e \in CalleeErrs,
        s2 \in IF id # "" THEN {NoSession} \cup ({id} \cap Sessions)
               ELSE IF create THEN SessionRefs
               ELSE {NoSession} }

----------------------------------------------------------------------------
(* Request dispatch *)

\* mutant: the first value is taken when the header has several
getSessionID_First(header) ==
    IF "Session" \in DOMAIN header /\ Len(header["Session"]) >= 1
    THEN header["Session"][1]
    ELSE ""

getSessionID(header) ==
    IF "Session" \in DOMAIN header /\ Len(header["Session"]) = 1
    THEN header["Session"][1]
    ELSE ""

RECURSIVE Join(_, _)
\* strings.Join(methods, sep)
Join(methods, sep) ==
    IF methods = <<>> THEN ""
    ELSE IF Len(methods) = 1 THEN methods[1]
    ELSE methods[1] \o sep \o Join(Tail(methods), sep)

\* mutant: GET_PARAMETER is advertised only when its handler is implemented
PublicMethods_GetParameterOptional ==
    (IF Implements("OnDescribe") THEN <<"DESCRIBE">> ELSE <<>>)
    \o (IF Implements("OnAnnounce") THEN <<"ANNOUNCE">> ELSE <<>>)
    \o (IF Implements("OnSetup") THEN <<"SETUP">> ELSE <<>>)
    \o (IF Implements("OnPlay") THEN <<"PLAY">> ELSE <<>>)
    \o (IF Implements("OnRecord") THEN <<"RECORD">> ELSE <<>>)
    \o (IF Implements("OnPause") THEN <<"PAUSE">> ELSE <<>>)
    \o (IF Implements("OnGetParameter") THEN <<"GET_PARAMETER">> ELSE <<>>)
    \o (IF Implements("OnSetParameter") THEN <<"SET_PARAMETER">> ELSE <<>>)
    \o <<"TEARDOWN">>

\* the methods OPTIONS advertises, in the order the code appends them
PublicMethods ==
    (IF Implements("OnDescribe") THEN <<"DESCRIBE">> ELSE <<>>)
    \o (IF Implements("OnAnnounce") THEN <<"ANNOUNCE">> ELSE <<>>)
    \o (IF Implements("OnSetup") THEN <<"SETUP">> ELSE <<>>)
    \o (IF Implements("OnPlay") THEN <<"PLAY">> ELSE <<>>)
    \o (IF Implements("OnRecord") THEN <<"RECORD">> ELSE <<>>)
    \o (IF Implements("OnPause") THEN <<"PAUSE">> ELSE <<>>)
    \o <<"GET_PARAMETER">>
    \o (IF Implements("OnSetParameter") THEN <<"SET_PARAMETER">> ELSE <<>>)
    \o <<"TEARDOWN">>

\* mutant: the refusal also drops the connection's binding
LinkedToOtherSession_Unbinds ==
    { [res |-> Response(StatusBadRequest),
       err |-> "ErrServerLinkedToOtherSession",
       session |-> NoSession,
       call |-> NoCall] }

LinkedToOtherSession ==
    { [res |-> Response(StatusBadRequest),
       err |-> "ErrServerLinkedToOtherSession",
       session |-> session,
       call |-> NoCall] }

\* mutant: a nil session returned by the callee leaves the binding as it was
Forwarded_KeepsBindingOnNil(target, id, create, results) ==
    { [res |-> r.res, err |-> r.err,
       session |-> IF r.session = NoSession THEN session ELSE r.session,
       call |-> [target |-> target, on |-> session, id |-> id,
                 create |-> create, ret |-> r.session]] : r \in results }

\* sc.session = session after the callee returned (res, session, err)
Forwarded(target, id, create, results) ==
    { [res |-> r.res, err |-> r.err, session |-> r.session,
       call |-> [target |-> target, on |-> session, id |-> id,
                 create |-> create, ret |-> r.session]] : r \in results }

\* mutant: a bound connection forwards any session ID to its session
handleRequestInSession_NoLinkCheck(sxID, req, create) ==
    IF session # NoSession
    THEN Forwarded("session", sxID, create,
                   SessionHandleRequest(session, sxID, create))
    ELSE Forwarded("server", sxID, create, ServerHandleRequest(sxID, create))

handleRequestInSession(sxID, req, create) ==
    IF session # NoSession
    THEN IF sxID # "" /\ sxID # secretID(session)
         THEN LinkedToOtherSession
         ELSE Forwarded("session", sxID, create,
                        SessionHandleRequest(session, sxID, create))
    ELSE Forwarded("server", sxID, create, ServerHandleRequest(sxID, create))

NotImplemented ==
    { [res |-> Response(StatusNotImplemented), err |-> Nil, session |-> session,
       call |-> NoCall] }

CSeqMissing ==
    { [res |-> Response(StatusBadRequest),
       err |-> "ErrServerCSeqMissing",
       session |-> session,
       call |-> NoCall] }

InvalidPath ==
    { [res |-> Response(StatusBadRequest),
       err |-> "ErrServerInvalidPath",
       session |-> session,
       call |-> NoCall] }

handleOptions ==
    { [res |-> [status |-> StatusOK,
                header |-> SetHeader(<<>>, "Public", <<Join(PublicMethods, ", ")>>),
                body |-> ""],
       err |-> Nil,
       session |-> session,
       call |-> NoCall] }

handleDescribe(req) ==
    { [res |-> IF d.res.status = StatusOK
               THEN [status |-> d.res.status,
                     header |-> SetHeader(
                                  SetHeader(d.res.header, "Content-Base",
                                            <<req.url \o "/">>),
                                  "Content-Type", <<"application/sdp">>),
                     body |-> IF d.stream # "nil" THEN "sdp" ELSE d.res.body]
               ELSE d.res,
       err |-> d.err,
       session |-> session,
       call |-> HandlerCall] : d \in OnDescribe(req) }

\* the switch on req.Method; every arm that does not return falls through
\* to the 501 at the end
dispatchMethod(req, sxID) ==
    CASE req.method = "OPTIONS" ->
            IF sxID # "" THEN handleRequestInSession(sxID, req, FALSE)
            ELSE handleOptions
      [] req.method = "DESCRIBE" ->
            IF Implements("OnDescribe") THEN handleDescribe(req)
            ELSE NotImplemented
      [] req.method = "ANNOUNCE" ->
            IF Implements("OnAnnounce") THEN handleRequestInSession(sxID, req, TRUE)
            ELSE NotImplemented
      [] req.method = "SETUP" ->
            IF Implements("OnSetup") THEN handleRequestInSession(sxID, req, TRUE)
            ELSE NotImplemented
      [] req.method = "PLAY" ->
            IF sxID # "" /\ Implements("OnPlay")
            THEN handleRequestInSession(sxID, req, FALSE)
            ELSE NotImplemented
      [] req.method = "RECORD" ->
            IF sxID # "" /\ Implements("OnRecord")
            THEN handleRequestInSession(sxID, req, FALSE)
            ELSE NotImplemented
      [] req.method = "PAUSE" ->
            IF sxID # "" /\ Implements("OnPause")
            THEN handleRequestInSession(sxID, req, FALSE)
            ELSE NotImplemented
      [] req.method = "TEARDOWN" ->
            IF sxID # "" THEN handleRequestInSession(sxID, req, FALSE)
            ELSE NotImplemented
      [] req.method = "GET_PARAMETER" ->
            IF sxID # "" THEN handleRequestInSession(sxID, req, FALSE)
            ELSE IF Implements("OnGetParameter") THEN OnParameter(req)
            ELSE NotImplemented
      [] req.method = "SET_PARAMETER" ->
            IF sxID # "" THEN handleRequestInSession(sxID, req, FALSE)
            ELSE IF Implements("OnSetParameter") THEN OnParameter(req)
            ELSE NotImplemented
      [] OTHER -> NotImplemented

\* mutant: the CSeq check accepts a header with several values
handleRequestInner_NoLenCheck(req) ==
    IF ~("CSeq" \in DOMAIN req.header)
    THEN CSeqMissing
    ELSE IF req.method # "OPTIONS" /\ req.url = ""
    THEN InvalidPath
    ELSE dispatchMethod(req, getSessionID(req.header))

\* mutant: the URL is checked before the CSeq
handleRequestInner_URLFirst(req) ==
    IF req.method # "OPTIONS" /\ req.url = ""
    THEN InvalidPath
    ELSE IF ~("CSeq" \in DOMAIN req.header) \/ Len(req.header["CSeq"]) # 1
    THEN CSeqMissing
    ELSE dispatchMethod(req, getSessionID(req.header))

\* the set of (res, err, session) dispatch can return for req
handleRequestInner(req) ==
    IF ~("CSeq" \in DOMAIN req.header) \/ Len(req.header["CSeq"]) # 1
    THEN CSeqMissing
    ELSE IF req.method # "OPTIONS" /\ req.url = ""
    THEN InvalidPath
    ELSE dispatchMethod(req, getSessionID(req.header))

\* mutant: the CSeq is echoed only when dispatch returned no error
AddCSeq_OnlyOnSuccess(h, req, err) ==
    IF err = Nil
    THEN SetHeader(h, "CSeq", HeaderGet(req.header, "CSeq"))
    ELSE h

\* "add cseq": unless the error is ErrServerCSeqMissing, copy the request's
AddCSeq(h, req, err) ==
    IF err # "ErrServerCSeqMissing"
    THEN SetHeader(h, "CSeq", HeaderGet(req.header, "CSeq"))
    ELSE h

\* mutant: the Server header is added only next to a CSeq header
AddServer_OnlyWithCSeq(h) ==
    IF "CSeq" \in DOMAIN h THEN SetHeader(h, "Server", <<"gortsplib">>) ELSE h

\* "add server"
AddServer(h) == SetHeader(h, "Server", <<"gortsplib">>)

\* mutant: a write error replaces the dispatch error
ComposeError_WriteWins(err, err2) == IF err2 # Nil THEN err2 ELSE err

\* handleRequestOuter's result once dispatch returned d and the write
\* returned err2: the response written and the error returned
ComposeError(err, err2) == IF err = Nil /\ err2 # Nil THEN err2 ELSE err

handleRequestOuter(req, d, err2) ==
    [res |-> [d.res EXCEPT !.header = AddServer(AddCSeq(@, req, d.err))],
     err |-> ComposeError(d.err, err2),
     session |-> d.session]

----------------------------------------------------------------------------
(* The client reader: data *)

NoChannel == "none"

\* channels an interleaved frame can name
Channels == {"ch0", "ch1"}

\* r.c.tcpCallbackByChannel: the channels with a callback
CallbackChannels == {"ch0"}

\* clientReader after start(): the zero value of the struct, the reader
\* task about to read, the Client in its event loop
ClientStart ==
    /\ crpc = "read"
    /\ allowInterleavedFrames = FALSE
    /\ mutex = "free"
    /\ spc = "idle"
    /\ setArg = FALSE
    /\ cframe = NoChannel
    /\ cerr = Nil
    /\ nUnits = 0
    /\ nCallbacks = 0
    /\ nReplies = 0
    /\ opc = "loop"
    /\ ownerErr = Nil
    /\ cSockClosed = FALSE
    /\ nDiscarded = 0

----------------------------------------------------------------------------
(* State after initialize(): run() is spawned, nothing has happened yet *)

Init ==
    /\ caps \in HandlerSets
    /\ pc = "open"
    /\ rpc = "idle"
    /\ ctxDone = FALSE
    /\ closeCalled = FALSE
    /\ sockClosed = FALSE
    /\ session = NoSession
    /\ rreq = NoReq
    /\ rerr = Nil
    /\ cur = NoReq
    /\ res = NoRes
    /\ herr = Nil
    /\ loopErr = Nil
    /\ chRemove = NoSession
    /\ nRead = 0
    /\ accepted = <<>>
    /\ written = <<>>
    /\ refused = {}
    /\ nOpen = 0
    /\ nClose = 0
    /\ closeErr = Nil
    /\ removedFrom = NoSession
    /\ registered = TRUE
    /\ call = NoCall
    /\ derr = Nil
    /\ werr = Nil
    /\ lastRemove = NoSession
    /\ ClientStart

----------------------------------------------------------------------------
(* run(): start *)

\* mutant: run() starts the reader and the loop without firing OnConnOpen
FireOnConnOpen_Skipped ==
    /\ pc = "open"
    /\ nOpen' = nOpen
    /\ pc' = "spawn"
    /\ UNCHANGED <<cvars, lastRemove, call, derr, werr, refused, caps, rpc, ctxDone, closeCalled, sockClosed, session, rreq, rerr,
                   cur, res, herr, loopErr, chRemove, nRead, accepted, written,
                   nClose, closeErr, removedFrom, registered>>

\* run() fires OnConnOpen when the handler implements it
FireOnConnOpen ==
    /\ pc = "open"
    /\ nOpen' = IF Implements("OnConnOpen") THEN nOpen + 1 ELSE nOpen
    /\ pc' = "spawn"
    /\ UNCHANGED <<cvars, lastRemove, call, derr, werr, refused, caps, rpc, ctxDone, closeCalled, sockClosed, session, rreq, rerr,
                   cur, res, herr, loopErr, chRemove, nRead, accepted, written,
                   nClose, closeErr, removedFrom, registered>>

\* run() creates the framed conn and starts the reader, then enters runInner
SpawnReader ==
    /\ pc = "spawn"
    /\ rpc' = "read"
    /\ pc' = "select"
    /\ UNCHANGED <<cvars, lastRemove, call, derr, werr, refused, caps, ctxDone, closeCalled, sockClosed, session, rreq, rerr,
                   cur, res, herr, loopErr, chRemove, nRead, accepted, written,
                   nOpen, nClose, closeErr, removedFrom, registered>>

----------------------------------------------------------------------------
(* Outside callers *)

\* ServerConn.Close(), or the Server's context being cancelled
Close ==
    /\ ~closeCalled
    /\ pc # "done"
    /\ closeCalled' = TRUE
    /\ ctxDone' = TRUE
    /\ UNCHANGED <<cvars, lastRemove, call, derr, werr, refused, caps, pc, rpc, sockClosed, session, rreq, rerr,
                   cur, res, herr, loopErr, chRemove, nRead, accepted, written,
                   nOpen, nClose, closeErr, removedFrom, registered>>

\* a session calls sc.removeSession(ss) and blocks in its select
CallRemoveSession(ss) ==
    /\ chRemove = NoSession
    /\ pc # "done"
    /\ chRemove' = ss
    /\ UNCHANGED <<cvars, lastRemove, call, derr, werr, refused, caps, pc, rpc, ctxDone, closeCalled, sockClosed, session, rreq, rerr,
                   cur, res, herr, loopErr, nRead, accepted, written,
                   nOpen, nClose, closeErr, removedFrom, registered>>

\* removeSession: case <-sc.ctx.Done()
RemoveSessionCancelled ==
    /\ chRemove # NoSession
    /\ ctxDone
    /\ chRemove' = NoSession
    /\ UNCHANGED <<cvars, lastRemove, call, derr, werr, refused, caps, pc, rpc, ctxDone, closeCalled, sockClosed, session, rreq, rerr,
                   cur, res, herr, loopErr, nRead, accepted, written,
                   nOpen, nClose, closeErr, removedFrom, registered>>

----------------------------------------------------------------------------
(* The reader task *)

\* whether the reader stops reading after readRequest returned err: it does
\* on cancellation and on an I/O error, and goes on after a request that was
\* answered with a protocol, state or handler error
ReaderBreaksOn(err) == err \in {"ErrServerTerminated", "ErrWrite"}

\* conn.Read() returned a request: the reader calls sc.readRequest
ReaderReadRequest ==
    /\ rpc = "read"
    /\ ~sockClosed
    /\ nRead < MaxReqs
    /\ \E r \in RequestsWithId(nRead + 1) : rreq' = r
    /\ nRead' = nRead + 1
    /\ rpc' = "post"
    /\ UNCHANGED <<cvars, lastRemove, call, derr, werr, refused, caps, pc, ctxDone, closeCalled, sockClosed, session, rerr,
                   cur, res, herr, loopErr, chRemove, accepted, written,
                   nOpen, nClose, closeErr, removedFrom, registered>>

\* conn.Read() failed, or returned a response, which a server does not
\* expect: the reader calls sc.readError
ReaderReadError ==
    /\ rpc = "read"
    /\ \E e \in ReadErrs :
          /\ sockClosed => e = "ErrRead"
          /\ rerr' = e
    /\ rpc' = "posterr"
    /\ UNCHANGED <<cvars, lastRemove, call, derr, werr, refused, caps, pc, ctxDone, closeCalled, sockClosed, session, rreq,
                   cur, res, herr, loopErr, chRemove, nRead, accepted, written,
                   nOpen, nClose, closeErr, removedFrom, registered>>

\* mutant: readRequest's cancellation branch returns nil
ReadRequestCancelled_ReturnsNil ==
    /\ rpc = "post"
    /\ ctxDone
    /\ rreq' = NoReq
    /\ IF ReaderBreaksOn(Nil)
       THEN rpc' = "posterr" /\ rerr' = Nil
       ELSE rpc' = "read" /\ rerr' = rerr
    /\ UNCHANGED <<cvars, lastRemove, call, derr, werr, refused, caps, pc, ctxDone, closeCalled, sockClosed, session,
                   cur, res, herr, loopErr, chRemove, nRead, accepted, written,
                   nOpen, nClose, closeErr, removedFrom, registered>>

\* readRequest: case <-sc.ctx.Done(): return ErrServerTerminated
ReadRequestCancelled ==
    /\ rpc = "post"
    /\ ctxDone
    /\ rreq' = NoReq
    /\ IF ReaderBreaksOn("ErrServerTerminated")
       THEN rpc' = "posterr" /\ rerr' = "ErrServerTerminated"
       ELSE rpc' = "read" /\ rerr' = rerr
    /\ UNCHANGED <<cvars, lastRemove, call, derr, werr, refused, caps, pc, ctxDone, closeCalled, sockClosed, session,
                   cur, res, herr, loopErr, chRemove, nRead, accepted, written,
                   nOpen, nClose, closeErr, removedFrom, registered>>

\* readError: case <-sc.ctx.Done(); the reader task ends
ReadErrorCancelled ==
    /\ rpc = "posterr"
    /\ ctxDone
    /\ rpc' = "done"
    /\ UNCHANGED <<cvars, lastRemove, call, derr, werr, refused, caps, pc, ctxDone, closeCalled, sockClosed, session, rreq, rerr,
                   cur, res, herr, loopErr, chRemove, nRead, accepted, written,
                   nOpen, nClose, closeErr, removedFrom, registered>>

----------------------------------------------------------------------------
(* runInner(): the event loop *)

\* mutant: readRequest returns right after its send, without <-req.res
RecvReadRequest_NoWait ==
    /\ pc = "select"
    /\ ~ctxDone
    /\ rpc = "post"
    /\ cur' = rreq
    /\ accepted' = Append(accepted, rreq.id)
    /\ lastRemove' = NoSession
    /\ pc' = "handle"
    /\ rpc' = "read"
    /\ UNCHANGED <<cvars, call, derr, werr, refused, caps, ctxDone, closeCalled, sockClosed, session, rreq, rerr,
                   res, herr, loopErr, chRemove, nRead, written,
                   nOpen, nClose, closeErr, removedFrom, registered>>

\* case req := <-sc.chReadRequest, meeting readRequest's send
RecvReadRequest ==
    /\ pc = "select"
    /\ ~ctxDone
    /\ rpc = "post"
    /\ cur' = rreq
    /\ accepted' = Append(accepted, rreq.id)
    /\ lastRemove' = NoSession
    /\ pc' = "handle"
    /\ rpc' = "await"
    /\ UNCHANGED <<cvars, call, derr, werr, refused, caps, ctxDone, closeCalled, sockClosed, session, rreq, rerr,
                   res, herr, loopErr, chRemove, nRead, written,
                   nOpen, nClose, closeErr, removedFrom, registered>>

\* mutant: no response is written when dispatch returned an error
HandleRequest_NoWriteOnError ==
    /\ pc = "handle"
    /\ \E d \in handleRequestInner(cur), err2 \in WriteErrs :
          LET o == handleRequestOuter(cur, d, err2) IN
            /\ res' = o.res
            /\ herr' = o.err
            /\ session' = o.session
            /\ call' = d.call
            /\ derr' = d.err
            /\ werr' = err2
            /\ refused' = IF o.err = "ErrServerLinkedToOtherSession"
                          THEN refused \cup {cur.id}
                          ELSE refused
            /\ written' = IF d.err = Nil THEN Append(written, cur.id) ELSE written
    /\ pc' = "reply"
    /\ UNCHANGED <<cvars, lastRemove, caps, rpc, ctxDone, closeCalled, sockClosed, rreq, rerr,
                   cur, loopErr, chRemove, nRead, accepted,
                   nOpen, nClose, closeErr, removedFrom, registered>>

\* sc.handleRequestOuter(req.req): dispatch, headers, one write
HandleRequest ==
    /\ pc = "handle"
    /\ \E d \in handleRequestInner(cur), err2 \in WriteErrs :
          LET o == handleRequestOuter(cur, d, err2) IN
            /\ res' = o.res
            /\ herr' = o.err
            /\ session' = o.session
            /\ call' = d.call
            /\ derr' = d.err
            /\ werr' = err2
            /\ refused' = IF o.err = "ErrServerLinkedToOtherSession"
                          THEN refused \cup {cur.id}
                          ELSE refused
    /\ written' = Append(written, cur.id)
    /\ pc' = "reply"
    /\ UNCHANGED <<cvars, lastRemove, caps, rpc, ctxDone, closeCalled, sockClosed, rreq, rerr,
                   cur, loopErr, chRemove, nRead, accepted,
                   nOpen, nClose, closeErr, removedFrom, registered>>

\* req.res <- err, meeting readRequest's <-req.res; readRequest returns
SendResult ==
    /\ pc = "reply"
    /\ rpc = "await"
    /\ IF ReaderBreaksOn(herr)
       THEN rpc' = "posterr" /\ rerr' = herr
       ELSE rpc' = "read" /\ rerr' = rerr
    /\ rreq' = NoReq
    /\ cur' = NoReq
    /\ res' = NoRes
    /\ herr' = Nil
    /\ call' = NoCall
    /\ derr' = Nil
    /\ werr' = Nil
    /\ pc' = "select"
    /\ UNCHANGED <<cvars, lastRemove, refused, caps, ctxDone, closeCalled, sockClosed, session,
                   loopErr, chRemove, nRead, accepted, written,
                   nOpen, nClose, closeErr, removedFrom, registered>>

\* mutant: the loop reports a read error as a termination
RecvReadError_Terminated ==
    /\ pc = "select"
    /\ ~ctxDone
    /\ rpc = "posterr"
    /\ loopErr' = "ErrServerTerminated"
    /\ pc' = "cancel"
    /\ rpc' = "done"
    /\ UNCHANGED <<cvars, lastRemove, call, derr, werr, refused, caps, ctxDone, closeCalled, sockClosed, session, rreq, rerr,
                   cur, res, herr, chRemove, nRead, accepted, written,
                   nOpen, nClose, closeErr, removedFrom, registered>>

\* case err := <-sc.chReadError: return err, meeting readError's send
RecvReadError ==
    /\ pc = "select"
    /\ ~ctxDone
    /\ rpc = "posterr"
    /\ loopErr' = rerr
    /\ pc' = "cancel"
    /\ rpc' = "done"
    /\ UNCHANGED <<cvars, lastRemove, call, derr, werr, refused, caps, ctxDone, closeCalled, sockClosed, session, rreq, rerr,
                   cur, res, herr, chRemove, nRead, accepted, written,
                   nOpen, nClose, closeErr, removedFrom, registered>>

\* mutant: any detach notification clears the binding
RecvRemoveSession_Always ==
    /\ pc = "select"
    /\ ~ctxDone
    /\ chRemove # NoSession
    /\ session' = NoSession
    /\ lastRemove' = chRemove
    /\ chRemove' = NoSession
    /\ UNCHANGED <<cvars, call, derr, werr, refused, caps, pc, rpc, ctxDone, closeCalled, sockClosed, rreq, rerr,
                   cur, res, herr, loopErr, nRead, accepted, written,
                   nOpen, nClose, closeErr, removedFrom, registered>>

\* case ss := <-sc.chRemoveSession, meeting removeSession's send
RecvRemoveSession ==
    /\ pc = "select"
    /\ ~ctxDone
    /\ chRemove # NoSession
    /\ session' = IF session = chRemove THEN NoSession ELSE session
    /\ lastRemove' = chRemove
    /\ chRemove' = NoSession
    /\ UNCHANGED <<cvars, call, derr, werr, refused, caps, pc, rpc, ctxDone, closeCalled, sockClosed, rreq, rerr,
                   cur, res, herr, loopErr, nRead, accepted, written,
                   nOpen, nClose, closeErr, removedFrom, registered>>

\* mutant: the cancellation branch returns nil
RecvCtxDone_ReturnsNil ==
    /\ pc = "select"
    /\ ctxDone
    /\ loopErr' = Nil
    /\ pc' = "cancel"
    /\ UNCHANGED <<cvars, lastRemove, call, derr, werr, refused, caps, rpc, ctxDone, closeCalled, sockClosed, session, rreq, rerr,
                   cur, res, herr, chRemove, nRead, accepted, written,
                   nOpen, nClose, closeErr, removedFrom, registered>>

\* case <-sc.ctx.Done(): return ErrServerTerminated
RecvCtxDone ==
    /\ pc = "select"
    /\ ctxDone
    /\ loopErr' = "ErrServerTerminated"
    /\ pc' = "cancel"
    /\ UNCHANGED <<cvars, lastRemove, call, derr, werr, refused, caps, rpc, ctxDone, closeCalled, sockClosed, session, rreq, rerr,
                   cur, res, herr, chRemove, nRead, accepted, written,
                   nOpen, nClose, closeErr, removedFrom, registered>>

----------------------------------------------------------------------------
(* run(): after runInner returned *)

\* sc.ctxCancel()
CtxCancel ==
    /\ pc = "cancel"
    /\ ctxDone' = TRUE
    /\ pc' = "close"
    /\ UNCHANGED <<cvars, lastRemove, call, derr, werr, refused, caps, rpc, closeCalled, sockClosed, session, rreq, rerr,
                   cur, res, herr, loopErr, chRemove, nRead, accepted, written,
                   nOpen, nClose, closeErr, removedFrom, registered>>

\* sc.nconn.Close()
CloseSocket ==
    /\ pc = "close"
    /\ sockClosed' = TRUE
    /\ pc' = "wait"
    /\ UNCHANGED <<cvars, lastRemove, call, derr, werr, refused, caps, rpc, ctxDone, closeCalled, session, rreq, rerr,
                   cur, res, herr, loopErr, chRemove, nRead, accepted, written,
                   nOpen, nClose, closeErr, removedFrom, registered>>

\* mutant: run() goes on without joining the reader
WaitReader_NoJoin ==
    /\ pc = "wait"
    /\ pc' = "detach"
    /\ UNCHANGED <<cvars, lastRemove, call, derr, werr, refused, caps, rpc, ctxDone, closeCalled, sockClosed, session, rreq, rerr,
                   cur, res, herr, loopErr, chRemove, nRead, accepted, written,
                   nOpen, nClose, closeErr, removedFrom, registered>>

\* cr.wait(): returns once the reader task has ended
WaitReader ==
    /\ pc = "wait"
    /\ rpc = "done"
    /\ pc' = "detach"
    /\ UNCHANGED <<cvars, lastRemove, call, derr, werr, refused, caps, rpc, ctxDone, closeCalled, sockClosed, session, rreq, rerr,
                   cur, res, herr, loopErr, chRemove, nRead, accepted, written,
                   nOpen, nClose, closeErr, removedFrom, registered>>

\* if sc.session != nil { sc.session.removeConn(sc) }
RemoveConn ==
    /\ pc = "detach"
    /\ removedFrom' = IF session # NoSession THEN session ELSE removedFrom
    /\ pc' = "dereg"
    /\ UNCHANGED <<cvars, lastRemove, call, derr, werr, refused, caps, rpc, ctxDone, closeCalled, sockClosed, session, rreq, rerr,
                   cur, res, herr, loopErr, chRemove, nRead, accepted, written,
                   nOpen, nClose, closeErr, registered>>

\* sc.s.closeConn(sc)
CloseConn ==
    /\ pc = "dereg"
    /\ registered' = FALSE
    /\ pc' = "onclose"
    /\ UNCHANGED <<cvars, lastRemove, call, derr, werr, refused, caps, rpc, ctxDone, closeCalled, sockClosed, session, rreq, rerr,
                   cur, res, herr, loopErr, chRemove, nRead, accepted, written,
                   nOpen, nClose, closeErr, removedFrom>>

\* run() fires OnConnClose with runInner's error when the handler implements it
FireOnConnClose ==
    /\ pc = "onclose"
    /\ IF Implements("OnConnClose")
       THEN nClose' = nClose + 1 /\ closeErr' = loopErr
       ELSE nClose' = nClose /\ closeErr' = closeErr
    /\ pc' = "done"
    /\ UNCHANGED <<cvars, lastRemove, call, derr, werr, refused, caps, rpc, ctxDone, closeCalled, sockClosed, session, rreq, rerr,
                   cur, res, herr, loopErr, chRemove, nRead, accepted, written,
                   nOpen, removedFrom, registered>>

----------------------------------------------------------------------------

Next ==
    \/ FireOnConnOpen
    \/ SpawnReader
    \/ Close
    \/ \E ss \in Sessions : CallRemoveSession(ss)
    \/ RemoveSessionCancelled
    \/ ReaderReadRequest
    \/ ReaderReadError
    \/ ReadRequestCancelled
    \/ ReadErrorCancelled
    \/ RecvReadRequest
    \/ HandleRequest
    \/ SendResult
    \/ RecvReadError
    \/ RecvRemoveSession
    \/ RecvCtxDone
    \/ CtxCancel
    \/ CloseSocket
    \/ WaitReader
    \/ RemoveConn
    \/ CloseConn
    \/ FireOnConnClose

Spec == Init /\ [][Next]_vars

\* the channel helpers do not look at the handler: one handler set
FairInit ==
    Init /\ caps = {"OnConnClose", "OnDescribe", "OnSetup", "OnPlay", "OnPause",
                    "OnGetParameter"}

\* a goroutine whose select has the ctx.Done() case ready is runnable and
\* the scheduler runs it; nothing is assumed about the event loop
FairSpec ==
    /\ FairInit
    /\ [][Next]_vars
    /\ WF_vars(ReadRequestCancelled)
    /\ WF_vars(ReadErrorCancelled)
    /\ WF_vars(RemoveSessionCancelled)

----------------------------------------------------------------------------
(* The client reader: clientReader.run / runInner *)

\* conn.Read() failed: runInner returns the error, run() calls readError
CReadError ==
    /\ crpc = "read"
    /\ cerr' = "ErrRead"
    /\ crpc' = "posterr"
    /\ UNCHANGED <<svars, nDiscarded, allowInterleavedFrames, mutex, spc, setArg, cframe,
                   nUnits, nCallbacks, nReplies, opc, ownerErr, cSockClosed>>

\* conn.Read() returned a response: r.c.readResponse(what)
CReadResponse ==
    /\ crpc = "read"
    /\ ~cSockClosed
    /\ nUnits < MaxUnits
    /\ nUnits' = nUnits + 1
    /\ crpc' = "postres"
    /\ UNCHANGED <<svars, nDiscarded, allowInterleavedFrames, mutex, spc, setArg, cframe, cerr,
                   nCallbacks, nReplies, opc, ownerErr, cSockClosed>>

\* conn.Read() returned a request: r.c.readRequest(what)
CReadRequest ==
    /\ crpc = "read"
    /\ ~cSockClosed
    /\ nUnits < MaxUnits
    /\ nUnits' = nUnits + 1
    /\ crpc' = "postreq"
    /\ UNCHANGED <<svars, nDiscarded, allowInterleavedFrames, mutex, spc, setArg, cframe, cerr,
                   nCallbacks, nReplies, opc, ownerErr, cSockClosed>>

\* conn.Read() returned an interleaved frame on channel ch
CReadFrame(ch) ==
    /\ crpc = "read"
    /\ ~cSockClosed
    /\ nUnits < MaxUnits
    /\ nUnits' = nUnits + 1
    /\ cframe' = ch
    /\ crpc' = "lock"
    /\ UNCHANGED <<svars, nDiscarded, allowInterleavedFrames, mutex, spc, setArg, cerr,
                   nCallbacks, nReplies, opc, ownerErr, cSockClosed>>

\* mutant: the reader goes on to the check without taking the mutex
CLock_NoMutex ==
    /\ crpc = "lock"
    /\ crpc' = "check"
    /\ UNCHANGED <<svars, nDiscarded, allowInterleavedFrames, mutex, spc, setArg, cframe,
                   cerr, nUnits, nCallbacks, nReplies, opc, ownerErr, cSockClosed>>

\* r.mutex.Lock()
CLock ==
    /\ crpc = "lock"
    /\ mutex = "free"
    /\ mutex' = "reader"
    /\ crpc' = "check"
    /\ UNCHANGED <<svars, nDiscarded, allowInterleavedFrames, spc, setArg, cframe, cerr,
                   nUnits, nCallbacks, nReplies, opc, ownerErr, cSockClosed>>

\* mutant: the frame is dispatched whatever the flag says
CCheckFlag_IgnoresFlag ==
    /\ crpc = "check"
    /\ crpc' = IF cframe \in CallbackChannels THEN "callback" ELSE "unlock"
    /\ UNCHANGED <<svars, nDiscarded, allowInterleavedFrames, mutex, spc, setArg, cframe, cerr,
                   nUnits, nCallbacks, nReplies, opc, ownerErr, cSockClosed>>

\* if !r.allowInterleavedFrames { Unlock; return ErrClientUnexpectedFrame };
\* otherwise look the channel's callback up
CCheckFlag ==
    /\ crpc = "check"
    /\ IF ~allowInterleavedFrames
       THEN /\ mutex' = "free"
            /\ cerr' = "ErrClientUnexpectedFrame"
            /\ cframe' = NoChannel
            /\ crpc' = "posterr"
       ELSE /\ crpc' = IF cframe \in CallbackChannels THEN "callback" ELSE "unlock"
            /\ UNCHANGED <<mutex, cerr, cframe>>
    /\ UNCHANGED <<svars, nDiscarded, allowInterleavedFrames, spc, setArg,
                   nUnits, nCallbacks, nReplies, opc, ownerErr, cSockClosed>>

\* cb(what.Payload), under the mutex
CCallback ==
    /\ crpc = "callback"
    /\ nCallbacks' = nCallbacks + 1
    /\ crpc' = "unlock"
    /\ UNCHANGED <<svars, nDiscarded, allowInterleavedFrames, mutex, spc, setArg, cframe, cerr,
                   nUnits, nReplies, opc, ownerErr, cSockClosed>>

\* r.mutex.Unlock() after the dispatch
CUnlock ==
    /\ crpc = "unlock"
    /\ mutex' = "free"
    /\ cframe' = NoChannel
    /\ crpc' = "read"
    /\ UNCHANGED <<svars, nDiscarded, allowInterleavedFrames, spc, setArg, cerr,
                   nUnits, nCallbacks, nReplies, opc, ownerErr, cSockClosed>>

(* clientReader.setAllowInterleavedFrames, called by the Client's loop *)

\* r.mutex.Lock()
SetAllowLock(v) ==
    /\ opc = "loop"
    /\ spc = "idle"
    /\ mutex = "free"
    /\ mutex' = "owner"
    /\ setArg' = v
    /\ spc' = "locked"
    /\ UNCHANGED <<svars, nDiscarded, crpc, allowInterleavedFrames, cframe, cerr,
                   nUnits, nCallbacks, nReplies, opc, ownerErr, cSockClosed>>

\* r.allowInterleavedFrames = v; deferred r.mutex.Unlock()
SetAllowStore ==
    /\ spc = "locked"
    /\ allowInterleavedFrames' = setArg
    /\ mutex' = "free"
    /\ spc' = "idle"
    /\ UNCHANGED <<svars, nDiscarded, crpc, setArg, cframe, cerr,
                   nUnits, nCallbacks, nReplies, opc, ownerErr, cSockClosed>>

(* The Client: its event loop, and clientReader.wait *)

\* the Client's loop receives a response the reader posts
OwnerRecvResponse ==
    /\ opc = "loop"
    /\ spc = "idle"
    /\ crpc = "postres"
    /\ crpc' = "read"
    /\ UNCHANGED <<svars, nDiscarded, allowInterleavedFrames, mutex, spc, setArg, cframe, cerr,
                   nUnits, nCallbacks, nReplies, opc, ownerErr, cSockClosed>>

\* the Client's loop receives a request the reader posts and answers it
OwnerRecvRequest ==
    /\ opc = "loop"
    /\ spc = "idle"
    /\ crpc = "postreq"
    /\ nReplies' = nReplies + 1
    /\ crpc' = "read"
    /\ UNCHANGED <<svars, nDiscarded, allowInterleavedFrames, mutex, spc, setArg, cframe, cerr,
                   nUnits, nCallbacks, opc, ownerErr, cSockClosed>>

\* the Client's loop receives the reader's error and ends with it
OwnerRecvError ==
    /\ opc = "loop"
    /\ spc = "idle"
    /\ crpc = "posterr"
    /\ ownerErr' = cerr
    /\ cSockClosed' = TRUE
    /\ opc' = "done"
    /\ crpc' = "done"
    /\ UNCHANGED <<svars, nDiscarded, allowInterleavedFrames, mutex, spc, setArg, cframe, cerr,
                   nUnits, nCallbacks, nReplies>>

\* the Client ends for a reason of its own: it closes the socket and calls
\* r.wait()
OwnerClose ==
    /\ opc = "loop"
    /\ spc = "idle"
    /\ ownerErr' = "ErrClientTerminated"
    /\ cSockClosed' = TRUE
    /\ opc' = "wait"
    /\ UNCHANGED <<svars, nDiscarded, crpc, allowInterleavedFrames, mutex, spc, setArg, cframe,
                   cerr, nUnits, nCallbacks, nReplies>>

\* wait: case <-r.c.chReadError: return
WaitRecvError ==
    /\ opc = "wait"
    /\ crpc = "posterr"
    /\ crpc' = "done"
    /\ opc' = "done"
    /\ UNCHANGED <<svars, nDiscarded, allowInterleavedFrames, mutex, spc, setArg, cframe, cerr,
                   nUnits, nCallbacks, nReplies, ownerErr, cSockClosed>>

\* mutant: wait returns on the first response it receives
WaitRecvResponse_Returns ==
    /\ opc = "wait"
    /\ crpc = "postres"
    /\ nDiscarded' = nDiscarded + 1
    /\ crpc' = "read"
    /\ opc' = "done"
    /\ UNCHANGED <<svars, allowInterleavedFrames, mutex, spc, setArg, cframe, cerr,
                   nUnits, nCallbacks, nReplies, ownerErr, cSockClosed>>

\* wait: case <-r.c.chReadResponse
WaitRecvResponse ==
    /\ opc = "wait"
    /\ crpc = "postres"
    /\ nDiscarded' = nDiscarded + 1
    /\ crpc' = "read"
    /\ UNCHANGED <<svars, allowInterleavedFrames, mutex, spc, setArg, cframe, cerr,
                   nUnits, nCallbacks, nReplies, opc, ownerErr, cSockClosed>>

\* wait: case <-r.c.chReadRequest
WaitRecvRequest ==
    /\ opc = "wait"
    /\ crpc = "postreq"
    /\ nDiscarded' = nDiscarded + 1
    /\ crpc' = "read"
    /\ UNCHANGED <<svars, allowInterleavedFrames, mutex, spc, setArg, cframe, cerr,
                   nUnits, nCallbacks, nReplies, opc, ownerErr, cSockClosed>>

ClientNext ==
    \/ CReadError
    \/ CReadResponse
    \/ CReadRequest
    \/ \E ch \in Channels : CReadFrame(ch)
    \/ CLock
    \/ CCheckFlag
    \/ CCallback
    \/ CUnlock
    \/ \E v \in BOOLEAN : SetAllowLock(v)
    \/ SetAllowStore
    \/ OwnerRecvResponse
    \/ OwnerRecvRequest
    \/ OwnerRecvError
    \/ OwnerClose
    \/ WaitRecvError
    \/ WaitRecvResponse
    \/ WaitRecvRequest

\* the client reader on its own: the server connection does not move
ClientInit == Init /\ caps = {}

ClientSpec == ClientInit /\ [][ClientNext]_vars

\* the reader task and wait() are scheduled, a callback returns, and the
\* underlying read eventually fails
ClientFairSpec ==
    /\ ClientSpec
    /\ WF_vars(CReadError)
    /\ WF_vars(CLock)
    /\ WF_vars(CCheckFlag)
    /\ WF_vars(CCallback)
    /\ WF_vars(CUnlock)
    /\ WF_vars(WaitRecvError)
    /\ WF_vars(WaitRecvResponse)
    /\ WF_vars(WaitRecvRequest)

----------------------------------------------------------------------------
(* Properties *)

WellFormedCSeq(req) ==
    "CSeq" \in DOMAIN req.header /\ Len(req.header["CSeq"]) = 1

\* the loop has written the response for cur and not yet released the reader
Answered == pc = "reply"

C3_ServerHeader ==
    Answered =>
        /\ "Server" \in DOMAIN res.header
        /\ res.header["Server"] # <<>>
        /\ \A i \in 1..Len(res.header["Server"]) : res.header["Server"][i] # ""

C3_Witness ==
    /\ Answered
    /\ cur.method = "REDIRECT"
    /\ res.status = StatusNotImplemented
    /\ res.header["Server"] = <<"gortsplib">>

\* C4: every request the event loop received gets a response and exactly
\* one write attempt: none while it is being dispatched, one from then on,
\* also when dispatch returned an error.
C4_OneWritePerRequest ==
    /\ pc = "handle" => written = SubSeq(accepted, 1, Len(accepted) - 1)
    /\ pc # "handle" => written = accepted
    /\ Answered => res # NoRes /\ res.status # 0
    /\ \A i, j \in 1..Len(written) : written[i] = written[j] => i = j

C4_Witness ==
    /\ Answered
    /\ herr = "ErrServerInvalidPath"
    /\ Len(accepted) = 2
    /\ written = accepted


StrictlyIncreasing(s) == \A i \in 1..(Len(s) - 1) : s[i] < s[i + 1]

C5_Inv ==
    /\ StrictlyIncreasing(accepted)
    /\ Len(written) <= Len(accepted)
    /\ Len(accepted) <= Len(written) + 1
    /\ written = SubSeq(accepted, 1, Len(written))
    /\ pc \in {"handle", "reply"}
          => /\ rpc = "await"
             /\ cur = rreq
             /\ accepted[Len(accepted)] = rreq.id
    /\ rpc = "await" => pc \in {"handle", "reply"}
    /\ nRead <= Len(written) + 1

C5_Step ==
    /\ (rpc = "await" /\ rpc' # "await")
          => /\ pc = "reply"
             /\ written # <<>>
             /\ written[Len(written)] = rreq.id
    /\ (rpc = "post" /\ rpc' \notin {"post", "await"})
          => /\ ctxDone
             /\ accepted' = accepted
             /\ \A i \in 1..Len(accepted) : accepted[i] # rreq.id

\* C5: requests are received in the order the reader posts them and their
\* responses are written in that order, one request in flight at a time:
\* readRequest returns only after the loop wrote the response for its
\* request, unless the context was cancelled before the loop received it.
C5_InOrderOneInFlight == []C5_Inv /\ [][C5_Step]_vars

C5_Witness ==
    /\ Answered
    /\ accepted = <<1, 2, 3>>
    /\ written = <<1, 2, 3>>
    /\ rpc = "await"
    /\ rreq.id = 3

\* the request carries one Session value and it is not ss's secret ID
ForeignSession(req, ss) ==
    /\ ss # NoSession
    /\ "Session" \in DOMAIN req.header
    /\ Len(req.header["Session"]) = 1
    /\ req.header["Session"][1] # secretID(ss)

\* the step in which handleRequestOuter runs for cur
Handling == pc = "handle" /\ pc' = "reply"

\* C6 as stated: on a connection bound to S, any request with a Session
\* header other than S's secret ID is answered 400 and leaves S bound.
C6_Original ==
    [][(Handling /\ ForeignSession(cur, session))
          => (res'.status = StatusBadRequest /\ session' = session)]_vars

Malformed(req) ==
    ~WellFormedCSeq(req) \/ (req.method # "OPTIONS" /\ req.url = "")

\* the request reaches handleRequestInSession when it names a session
RoutedWithSession(req) ==
    \/ req.method \in {"OPTIONS", "TEARDOWN", "GET_PARAMETER", "SET_PARAMETER"}
    \/ req.method = "ANNOUNCE" /\ Implements("OnAnnounce")
    \/ req.method = "SETUP" /\ Implements("OnSetup")
    \/ req.method = "PLAY" /\ Implements("OnPlay")
    \/ req.method = "RECORD" /\ Implements("OnRecord")
    \/ req.method = "PAUSE" /\ Implements("OnPause")

\* C6 amended: on a connection bound to S, a request with a Session header
\* other than S's secret ID leaves S bound; it is answered 400 when it is
\* malformed or reaches session routing (then with
\* ErrServerLinkedToOtherSession), and 501 when its method is unknown or
\* its session-routed method has no handler; DESCRIBE is left to OnDescribe.
C6_ForeignSessionRefused ==
    [][(Handling /\ ForeignSession(cur, session))
          => /\ session' = session
             /\ Malformed(cur) => res'.status = StatusBadRequest
             /\ (~Malformed(cur) /\ RoutedWithSession(cur))
                   => /\ res'.status = StatusBadRequest
                      /\ herr' = "ErrServerLinkedToOtherSession"
             /\ (~Malformed(cur) /\ ~RoutedWithSession(cur) /\ cur.method # "DESCRIBE")
                   => res'.status = StatusNotImplemented
             /\ (~Malformed(cur) /\ cur.method = "DESCRIBE" /\ ~Implements("OnDescribe"))
                   => res'.status = StatusNotImplemented]_vars

C6_Witness ==
    /\ Answered
    /\ session = "abc"
    /\ cur.method = "PLAY"
    /\ HeaderGet(cur.header, "Session") = <<"xyz">>
    /\ res.status = StatusBadRequest
    /\ herr = "ErrServerLinkedToOtherSession"
    /\ res.header["CSeq"] = <<"7">>

C7_Inv ==
    /\ loopErr # "ErrServerLinkedToOtherSession"
    /\ closeErr # "ErrServerLinkedToOtherSession"
    /\ rerr # "ErrServerLinkedToOtherSession"

C7_Step ==
    (pc = "reply" /\ herr = "ErrServerLinkedToOtherSession" /\ pc' # "reply")
        => /\ pc' = "select"
           /\ rpc' = "read"
           /\ session # NoSession
           /\ session' = session
           /\ sockClosed' = FALSE
           /\ loopErr' = Nil

LoopReturns == pc = "select" /\ pc' = "cancel"

C8_Step ==
    /\ (LoopReturns /\ ctxDone) => loopErr' = "ErrServerTerminated"
    /\ ctxDone => accepted' = accepted

C8_Inv ==
    /\ loopErr = "ErrServerTerminated" => ctxDone
    /\ pc \in {"open", "spawn", "select", "handle", "reply"}
          => loopErr = Nil /\ ctxDone = closeCalled
    /\ nClose > 0
          => /\ closeErr = loopErr
             /\ loopErr # Nil
             /\ sockClosed
             /\ rpc = "done"

\* C8: once Close() or the server shutdown fired the token while the loop
\* runs, also during a request, the loop receives nothing more and returns
\* ErrServerTerminated; OnConnClose carries exactly the error the loop
\* returned, after the socket was closed and the reader task had ended.
C8_CancelTerminates == []C8_Inv /\ [][C8_Step]_vars

\* the token fired before the loop was back at its selection after a
\* request whose write failed: the loop ends with ErrServerTerminated, not
\* with the error the reader went on to post
C8_Witness ==
    /\ pc = "done"
    /\ closeCalled
    /\ nClose = 1
    /\ closeErr = "ErrServerTerminated"
    /\ rerr = "ErrWrite"
    /\ accepted = <<1>>
    /\ written = <<1>>
    /\ sockClosed
    /\ rpc = "done"

C9_Inv ==
    /\ nOpen <= 1
    /\ nClose <= 1
    /\ Implements("OnConnOpen")
          => /\ pc # "open" => nOpen = 1
             /\ accepted # <<>> => nOpen = 1
             /\ rpc # "idle" => nOpen = 1
    /\ Implements("OnConnClose")
          => /\ pc = "done" <=> nClose = 1
             /\ nClose = 1 => rpc = "done"

C9_Step ==
    nClose > 0 => accepted' = accepted /\ written' = written /\ res' = res

\* C9: with the hooks implemented, OnConnOpen fires once and before any
\* request is received, OnConnClose fires once, when run() ends, and after
\* it no request is received and no response written.
C9_OpenCloseOnce == []C9_Inv /\ [][C9_Step]_vars

C9_Witness ==
    /\ pc = "done"
    /\ nOpen = 1
    /\ nClose = 1
    /\ written = <<1, 2>>

\* C10: teardown order after the loop returned: context cancelled, socket
\* closed, reader joined, connection removed from its bound session,
\* connection deregistered from the Server, OnConnClose fired with the
\* loop's error.
C10_TeardownOrder ==
    /\ sockClosed => ctxDone /\ loopErr # Nil
    /\ removedFrom # NoSession => sockClosed /\ rpc = "done" /\ removedFrom = session
    /\ ~registered
          => /\ sockClosed
             /\ rpc = "done"
             /\ session # NoSession => removedFrom = session
    /\ nClose > 0 => ~registered /\ closeErr = loopErr
    /\ pc = "done" => ~registered /\ sockClosed /\ ctxDone /\ rpc = "done"

C10_Witness ==
    /\ pc = "done"
    /\ nClose = 1
    /\ closeErr = "ErrRead"
    /\ removedFrom = "abc"
    /\ ~registered
    /\ ~closeCalled

C11_Step ==
    /\ (ctxDone /\ rpc = "post" /\ rpc' # "post")
          => /\ rpc' = "posterr"
             /\ rerr' = "ErrServerTerminated"
             /\ pc' = pc
             /\ accepted' = accepted
    /\ (ctxDone /\ rpc = "posterr" /\ rpc' # "posterr")
          => /\ rpc' = "done"
             /\ pc' = pc
             /\ loopErr' = loopErr
    /\ (ctxDone /\ chRemove # NoSession /\ chRemove' # chRemove)
          => /\ chRemove' = NoSession
             /\ pc' = pc
             /\ session' = session

\* C11: once the context is cancelled, a readRequest the loop has not
\* received returns ErrServerTerminated, and pending readError and
\* removeSession calls return, each by its own cancellation branch: the
\* event loop takes no step in it and receives nothing, and with the
\* callers scheduled none of them stays blocked.
C11_NoCallerBlocked ==
    /\ [][C11_Step]_vars
    /\ (ctxDone /\ rpc = "post") ~> (rpc = "posterr")
    /\ (ctxDone /\ rpc = "posterr") ~> (rpc = "done")
    /\ (ctxDone /\ chRemove # NoSession) ~> (chRemove = NoSession)

\* the reader's pending readRequest and readError both returned while the
\* loop, cancelled, had not come back to its selection
C11_Witness ==
    /\ ctxDone
    /\ pc = "select"
    /\ loopErr = Nil
    /\ rpc = "done"
    /\ rerr = "ErrServerTerminated"
    /\ nRead = 1
    /\ accepted = <<>>

\* the handler interface a method needs to be advertised
HandlerOf(m) ==
    CASE m = "DESCRIBE" -> "OnDescribe"
      [] m = "ANNOUNCE" -> "OnAnnounce"
      [] m = "SETUP" -> "OnSetup"
      [] m = "PLAY" -> "OnPlay"
      [] m = "RECORD" -> "OnRecord"
      [] m = "PAUSE" -> "OnPause"
      [] m = "SET_PARAMETER" -> "OnSetParameter"

\* GET_PARAMETER and TEARDOWN plus the methods whose handler is implemented
ExpectedPublic ==
    {"GET_PARAMETER", "TEARDOWN"}
    \cup {m \in {"DESCRIBE", "ANNOUNCE", "SETUP", "PLAY", "RECORD", "PAUSE",
                 "SET_PARAMETER"} : Implements(HandlerOf(m))}

\* the order in which methods are listed
MethodOrder ==
    <<"DESCRIBE", "ANNOUNCE", "SETUP", "PLAY", "RECORD", "PAUSE",
      "GET_PARAMETER", "SET_PARAMETER", "TEARDOWN">>

ExpectedPublicValue ==
    LET Listed(m) == m \in ExpectedPublic
    IN  Join(SelectSeq(MethodOrder, Listed), ", ")

\* C12: an OPTIONS request with one CSeq value and no Session header is
\* answered 200, without error, with a Public header that lists exactly
\* GET_PARAMETER, TEARDOWN and the methods whose handler is implemented,
\* for every handler set; no handler, session or Server is called and the
\* binding is unchanged.
C12_OptionsPublic ==
    [][(Handling /\ cur.method = "OPTIONS" /\ WellFormedCSeq(cur)
          /\ "Session" \notin DOMAIN cur.header)
          => /\ res'.status = StatusOK
             /\ derr' = Nil
             /\ "Public" \in DOMAIN res'.header
             /\ res'.header["Public"] = <<ExpectedPublicValue>>
             /\ call' = NoCall
             /\ session' = session]_vars

C12_Witness ==
    /\ Answered
    /\ cur.method = "OPTIONS"
    /\ cur.header = [CSeq |-> <<"1">>]
    /\ caps = {"OnConnOpen", "OnConnClose", "OnDescribe"}
    /\ session = "abc"
    /\ res.status = StatusOK
    /\ res.header["Public"] = <<"DESCRIBE, GET_PARAMETER, TEARDOWN">>
    /\ res.header["CSeq"] = <<"1">>
    /\ res.header["Server"] = <<"gortsplib">>

\* C14: an ANNOUNCE (SETUP) request on a server whose handler lacks
\* OnAnnounce (OnSetup) is handed neither to the bound session nor to the
\* Server, so no session is created for it, and leaves the binding
\* unchanged; having passed the CSeq and URL checks it is answered 501.
C14_NoHandlerNoSession ==
    [][(Handling
          /\ \/ cur.method = "ANNOUNCE" /\ "OnAnnounce" \notin caps
             \/ cur.method = "SETUP" /\ "OnSetup" \notin caps)
          => /\ call' = NoCall
             /\ session' = session
             /\ ~Malformed(cur)
                   => res'.status = StatusNotImplemented /\ derr' = Nil]_vars

C14_Witness ==
    /\ Answered
    /\ cur.method = "SETUP"
    /\ "OnSetup" \notin caps
    /\ cur.url # ""
    /\ cur.header = [CSeq |-> <<"7">>]
    /\ session = NoSession
    /\ call = NoCall
    /\ res.status = StatusNotImplemented
    /\ herr = Nil

\* the Session header is missing or does not have exactly one value
SessionAbsent(req) ==
    "Session" \notin DOMAIN req.header \/ Len(req.header["Session"]) # 1

\* C17: a PLAY, RECORD or PAUSE request without a Session header, or with
\* a Session header that does not have exactly one value, is handed to no
\* session and not to the Server and leaves the binding unchanged, with or
\* without the handler and bound or not; having passed the CSeq and URL
\* checks it is answered 501.
C17_NoSessionID ==
    [][(Handling /\ cur.method \in {"PLAY", "RECORD", "PAUSE"}
          /\ SessionAbsent(cur))
          => /\ call' = NoCall
             /\ session' = session
             /\ ~Malformed(cur)
                   => res'.status = StatusNotImplemented /\ derr' = Nil]_vars

C17_Witness ==
    /\ Answered
    /\ cur.method = "PLAY"
    /\ "OnPlay" \in caps
    /\ HeaderGet(cur.header, "Session") = <<"abc", "xyz">>
    /\ HeaderGet(cur.header, "CSeq") = <<"7">>
    /\ cur.url # ""
    /\ session = "abc"
    /\ call = NoCall
    /\ res.status = StatusNotImplemented

\* C18: a request other than OPTIONS with one CSeq value and no URL is
\* answered 400 with ErrServerInvalidPath and the CSeq echoed, no handler,
\* session or Server being called and the binding unchanged; OPTIONS is
\* never refused with that error; a request lacking both CSeq and URL gets
\* ErrServerCSeqMissing.
C18_InvalidPath ==
    [][Handling
          => /\ (cur.method # "OPTIONS" /\ WellFormedCSeq(cur) /\ cur.url = "")
                   => /\ res'.status = StatusBadRequest
                      /\ derr' = "ErrServerInvalidPath"
                      /\ herr' = "ErrServerInvalidPath"
                      /\ "CSeq" \in DOMAIN res'.header
                      /\ res'.header["CSeq"] = cur.header["CSeq"]
                      /\ call' = NoCall
                      /\ session' = session
             /\ cur.method = "OPTIONS" => derr' # "ErrServerInvalidPath"
             /\ (~WellFormedCSeq(cur) /\ cur.url = "")
                   => /\ derr' = "ErrServerCSeqMissing"
                      /\ res'.status = StatusBadRequest
                      /\ "CSeq" \notin DOMAIN res'.header]_vars

C18_Witness ==
    /\ Answered
    /\ cur.method = "TEARDOWN"
    /\ cur.url = ""
    /\ cur.header = [CSeq |-> <<"7">>, Session |-> <<"abc">>]
    /\ session = "abc"
    /\ call = NoCall
    /\ res.status = StatusBadRequest
    /\ herr = "ErrServerInvalidPath"
    /\ res.header["CSeq"] = <<"7">>

\* C15: the error handleRequestOuter returns is the dispatch error when
\* there is one, also when the write failed too; it is the write error
\* when dispatch returned none and the write failed; it is nil only when
\* both succeeded.
C15_ErrorComposition ==
    Answered =>
        /\ derr # Nil => herr = derr
        /\ (derr = Nil /\ werr # Nil) => herr = werr
        /\ herr = Nil <=> (derr = Nil /\ werr = Nil)

C15_Witness ==
    /\ Answered
    /\ derr = "ErrServerLinkedToOtherSession"
    /\ werr = "ErrWrite"
    /\ herr = "ErrServerLinkedToOtherSession"

C16_Inv ==
    /\ loopErr \notin {Nil, "ErrServerTerminated"}
          => /\ loopErr = rerr
             /\ rpc = "done"
    /\ nClose > 0 => closeErr = loopErr

C16_Step ==
    /\ (rpc = "read" /\ rpc' = "posterr") => rerr' \in ReadErrs
    /\ (rpc = "posterr" /\ rpc' # "posterr")
          => /\ rpc' = "done"
             /\ rerr' = rerr
             /\ ~ctxDone
                   => /\ LoopReturns
                      /\ loopErr' = rerr
                      /\ written' = written
                      /\ accepted' = accepted
                      /\ res' = res
    /\ rpc = "done" => rpc' = "done"

\* C16: an error the reader hit is posted with readError once, after which
\* the reader task has ended; unless the context was cancelled first, the
\* loop receives it and returns exactly that error, writing nothing, and
\* OnConnClose carries the error the loop returned.
C16_ReadErrorTerminates == []C16_Inv /\ [][C16_Step]_vars

C16_Witness ==
    /\ pc = "done"
    /\ ~closeCalled
    /\ rpc = "done"
    /\ rerr = "ErrServerUnexpectedResponse"
    /\ loopErr = "ErrServerUnexpectedResponse"
    /\ nClose = 1
    /\ closeErr = "ErrServerUnexpectedResponse"
    /\ accepted = <<1>>
    /\ written = <<1>>

\* the session ID handleRequestInner extracts from req
SessionIDOf(req) ==
    IF SessionAbsent(req) THEN "" ELSE req.header["Session"][1]

\* req passes the CSeq and URL checks and its method arm calls
\* handleRequestInSession
ReachesSessionRouting(req) ==
    /\ ~Malformed(req)
    /\ RoutedWithSession(req)
    /\ SessionIDOf(req) # "" \/ req.method \in {"ANNOUNCE", "SETUP"}

\* C19: a request that reaches session routing is forwarded to the bound
\* session when the connection is bound and the session ID is empty or the
\* bound session's secret ID, to the Server when the connection is
\* unbound, and to nothing otherwise; the call carries the request's
\* session ID and create = TRUE exactly for ANNOUNCE and SETUP, and after
\* it the binding is the session reference the callee returned, nil
\* included; without such a call the binding does not change.
C19_SessionRouting ==
    [][Handling
          => /\ call'.target = "session"
                   <=> /\ ReachesSessionRouting(cur)
                       /\ session # NoSession
                       /\ SessionIDOf(cur) \in {"", secretID(session)}
             /\ call'.target = "server"
                   <=> (ReachesSessionRouting(cur) /\ session = NoSession)
             /\ call'.target \in {"session", "server"}
                   => /\ call'.on = session
                      /\ call'.id = SessionIDOf(cur)
                      /\ call'.create = (cur.method \in {"ANNOUNCE", "SETUP"})
                      /\ session' = call'.ret
             /\ call'.target \notin {"session", "server"}
                   => session' = session]_vars

\* a SETUP without Session header on a bound connection went to the bound
\* session, which detached the connection
C19_Witness ==
    /\ Answered
    /\ cur.method = "SETUP"
    /\ "Session" \notin DOMAIN cur.header
    /\ call = [target |-> "session", on |-> "abc", id |-> "", create |-> TRUE,
               ret |-> NoSession]
    /\ session = NoSession

\* the step in which the loop receives a detach notification
RemoveReceived ==
    pc = "select" /\ ~ctxDone /\ chRemove # NoSession /\ chRemove' = NoSession

C20_Step ==
    /\ RemoveReceived
          => /\ session = chRemove => session' = NoSession
             /\ session # chRemove => session' = session
             /\ pc' = "select"
             /\ loopErr' = Nil
             /\ written' = written
             /\ res' = res
    /\ session' # session => Handling \/ (RemoveReceived /\ chRemove = session)

\* C20: a detach notification for session X received by the loop clears
\* the binding when the connection is bound to X and leaves it unchanged
\* otherwise; either way the loop stays in its selection and writes
\* nothing, and nothing else but request handling changes the binding.
C20_DetachOnlyOwnSession == [][C20_Step]_vars

\* a notification for another session was received on a bound connection
C20_Witness ==
    /\ pc = "select"
    /\ lastRemove = "xyz"
    /\ session = "abc"
    /\ chRemove = NoSession
    /\ loopErr = Nil

C13_Inv ==
    /\ cerr = "ErrClientUnexpectedFrame" => crpc \in {"posterr", "done"}
    /\ ownerErr = "ErrClientUnexpectedFrame" => cerr = "ErrClientUnexpectedFrame"
    /\ crpc \in {"callback", "unlock"} => allowInterleavedFrames

C13_Step ==
    /\ (crpc = "check" /\ ~allowInterleavedFrames /\ crpc' # "check")
          => /\ crpc' = "posterr"
             /\ cerr' = "ErrClientUnexpectedFrame"
             /\ mutex' = "free"
             /\ nCallbacks' = nCallbacks
             /\ nReplies' = nReplies
    /\ crpc \in {"posterr", "done"}
          => /\ crpc' \in {"posterr", "done"}
             /\ cerr' = cerr
             /\ nCallbacks' = nCallbacks
             /\ nReplies' = nReplies
    /\ (crpc = "posterr" /\ crpc' = "done" /\ opc = "loop")
          => ownerErr' = cerr /\ opc' = "done"

\* C13: an interleaved frame checked while allowInterleavedFrames is false
\* makes runInner return ErrClientUnexpectedFrame with the mutex released:
\* no callback is invoked and nothing is written for it, the reader reads
\* no more, the error is the one posted, and the Client's loop, on
\* receiving it, ends with that error.
C13_UnexpectedFrame == []C13_Inv /\ [][C13_Step]_vars

\* a frame was dispatched while the flag was set; after the flag was
\* cleared the next frame ended the connection
C13_Witness ==
    /\ crpc = "done"
    /\ opc = "done"
    /\ ~allowInterleavedFrames
    /\ nCallbacks = 1
    /\ nReplies = 0
    /\ cerr = "ErrClientUnexpectedFrame"
    /\ ownerErr = "ErrClientUnexpectedFrame"

C21_Inv ==
    /\ mutex = "reader" <=> crpc \in {"check", "callback", "unlock"}
    /\ mutex = "owner" <=> spc = "locked"
    /\ ~allowInterleavedFrames => crpc \notin {"callback", "unlock"}

C21_Step ==
    /\ nCallbacks' # nCallbacks
          => /\ allowInterleavedFrames
             /\ allowInterleavedFrames'
             /\ mutex = "reader"
    /\ allowInterleavedFrames' # allowInterleavedFrames
          => /\ mutex = "owner"
             /\ crpc \notin {"check", "callback", "unlock"}
             /\ allowInterleavedFrames' = setArg
    /\ (crpc = "check" /\ crpc' \in {"callback", "unlock"})
          => allowInterleavedFrames /\ allowInterleavedFrames'
    /\ (crpc = "check" /\ ~allowInterleavedFrames /\ crpc' # "check")
          => crpc' = "posterr" /\ cerr' = "ErrClientUnexpectedFrame"

\* C21: the reader checks the flag and runs the callback while holding the
\* mutex setAllowInterleavedFrames takes: the flag changes only while the
\* reader is outside that section, so while the flag is false no callback
\* is running and none starts, and the next frame the reader checks ends
\* it with ErrClientUnexpectedFrame.
C21_FlagAndDispatchAtomic == []C21_Inv /\ [][C21_Step]_vars

\* setAllowInterleavedFrames(false) returned after a frame had been
\* dispatched, while the Client's loop runs; the next frame was refused
C21_Witness ==
    /\ opc = "loop"
    /\ spc = "idle"
    /\ ~allowInterleavedFrames
    /\ nCallbacks = 1
    /\ nUnits = 2
    /\ crpc = "posterr"
    /\ cerr = "ErrClientUnexpectedFrame"
    /\ mutex = "free"

C22_Step ==
    /\ (opc = "wait" /\ opc' # "wait")
          => /\ opc' = "done"
             /\ crpc = "posterr"
             /\ crpc' = "done"
    /\ (opc = "wait" /\ crpc \in {"postres", "postreq"} /\ crpc' # crpc)
          => /\ crpc' = "read"
             /\ opc' = "wait"
             /\ nDiscarded' = nDiscarded + 1
             /\ nReplies' = nReplies
             /\ ownerErr' = ownerErr

\* C22: wait() returns only by receiving the reader's error, which ends
\* the reader task; a response or request the reader posts meanwhile is
\* received and dropped, so the reader goes back to reading; and with the
\* read failing eventually, wait() returns and the reader task has ended.
C22_WaitDrainsReader ==
    /\ [][C22_Step]_vars
    /\ (opc = "wait" /\ crpc \in {"postres", "postreq"}) ~> (crpc = "read")
    /\ (opc = "wait") ~> (opc = "done" /\ crpc = "done")

\* wait() dropped the request the reader was posting when the Client
\* closed, and returned on the read error that followed
C22_Witness ==
    /\ opc = "done"
    /\ crpc = "done"
    /\ ownerErr = "ErrClientTerminated"
    /\ cerr = "ErrRead"
    /\ cSockClosed
    /\ nDiscarded = 1
    /\ nReplies = 1
    /\ nUnits = 2

====
